---- MODULE Spec2Model ----
(***************************************************************************)
(* SliceString (src/src/lib.rs): a UTF-8 string kept in the front of a     *)
(* caller-supplied byte slice.  SliceString wraps tinyvec::SliceVec<u8>,   *)
(* a (data, len) pair over a borrowed slice.  The model keeps one backing  *)
(* region `mem` and every live SliceString as a window (base, cap, len)    *)
(* onto it, so that split_off really is a re-partition of the same bytes.  *)
(* Bytes are numbers 0..255; UTF-8 validation, encoding and backward       *)
(* decoding are computed on the bytes as core::str computes them.          *)
(***************************************************************************)
EXTENDS Integers, Sequences, FiniteSets, TLC

\* ---- bounds of the model ------------------------------------------------
\* length of the backing region handed to a constructor
MaxCap == 4
\* most SliceStrings alive at once (each split_off adds one)
MaxBufs == 2
\* most calls made in one run
MaxOps == 4

\* usize arithmetic wraps modulo this when overflow checks are off
\* (a 16-bit usize target; the width only matters through the wrap).
UsizeModulus == 2 ^ 16

VARIABLES mem, bufs, last, pre, hist, overflow_checks, ops

vars == <<mem, bufs, last, pre, hist, overflow_checks, ops>>

\* ---- bytes and characters the inputs are drawn from -----------------------
\* bytes the caller's region may hold at construction: the two bytes of
\* U+00E9 (0xC3 0xA9), well-formed as a pair in that order and ill-formed
\* alone or in the other order
InitBytes == {195, 169}

\* characters pushed: one of each encoded width
\* 'a' U+0061, U+00E9, U+20AC, U+1F600
Chars == {97, 233, 8364, 128512}


\* ---- core::char / core::str, computed on bytes ----------------------------
\* char::len_utf8
len_utf8(c) ==
    IF c < 128 THEN 1
    ELSE IF c < 2048 THEN 2
    ELSE IF c < 65536 THEN 3
    ELSE 4

\* char::encode_utf8
encode_utf8(c) ==
    CASE len_utf8(c) = 1 -> <<c>>
      [] len_utf8(c) = 2 -> <<192 + ((c \div 64) % 32), 128 + (c % 64)>>
      [] len_utf8(c) = 3 -> <<224 + ((c \div 4096) % 16),
                              128 + ((c \div 64) % 64),
                              128 + (c % 64)>>
      [] OTHER           -> <<240 + ((c \div 262144) % 8),
                              128 + ((c \div 4096) % 64),
                              128 + ((c \div 64) % 64),
                              128 + (c % 64)>>

\* utf8_is_cont_byte: (byte as i8) < -64
utf8_is_cont_byte(b) == b >= 128 /\ b < 192

\* UTF8_CHAR_WIDTH table
utf8_char_width(b) ==
    IF b < 128 THEN 1
    ELSE IF b >= 194 /\ b <= 223 THEN 2
    ELSE IF b >= 224 /\ b <= 239 THEN 3
    ELSE IF b >= 240 /\ b <= 244 THEN 4
    ELSE 0

\* the second-byte ranges run_utf8_validation accepts after a lead byte
second_byte_ok(first, next) ==
    CASE utf8_char_width(first) = 2 -> utf8_is_cont_byte(next)
      [] utf8_char_width(first) = 3 ->
            \/ first = 224 /\ next >= 160 /\ next <= 191
            \/ first >= 225 /\ first <= 236 /\ utf8_is_cont_byte(next)
            \/ first = 237 /\ next >= 128 /\ next <= 159
            \/ first >= 238 /\ first <= 239 /\ utf8_is_cont_byte(next)
      [] utf8_char_width(first) = 4 ->
            \/ first = 240 /\ next >= 144 /\ next <= 191
            \/ first >= 241 /\ first <= 243 /\ utf8_is_cont_byte(next)
            \/ first = 244 /\ next >= 128 /\ next <= 143
      [] OTHER -> FALSE

\* str::from_utf8(bytes).is_ok(): validation from index i (1-based) on
RECURSIVE valid_from(_, _)
valid_from(s, i) ==
    IF i > Len(s) THEN TRUE
    ELSE LET w == utf8_char_width(s[i]) IN
         IF w = 1 THEN valid_from(s, i + 1)
         ELSE IF w = 0 \/ i + w - 1 > Len(s) THEN FALSE
         ELSE /\ second_byte_ok(s[i], s[i + 1])
              /\ \A k \in (i + 2)..(i + w - 1) : utf8_is_cont_byte(s[k])
              /\ valid_from(s, i + w)

\* a from_utf8 that skips the validation
from_utf8_unvalidated(s) == TRUE

from_utf8_ok(s) == valid_from(s, 1)

\* a boundary test that only compares with the length
is_char_boundary_lax(s, index) == index <= Len(s)

\* str::is_char_boundary
is_char_boundary(s, index) ==
    IF index = 0 THEN TRUE
    ELSE IF index >= Len(s) THEN index = Len(s)
    ELSE ~utf8_is_cont_byte(s[index + 1])

\* a pop that takes the last byte for the last character
last_char_byte(s) == s[Len(s)]

\* next_code_point_reverse on a non-empty well-formed str: the value of
\* chars().last()
last_char(s) ==
    LET n == Len(s)
        w == s[n]
    IN IF w < 128 THEN w
       ELSE LET z == s[n - 1] IN
            IF ~utf8_is_cont_byte(z)
            THEN (z % 32) * 64 + (w % 64)
            ELSE LET y == s[n - 2] IN
                 IF ~utf8_is_cont_byte(y)
                 THEN ((y % 16) * 64 + (z % 64)) * 64 + (w % 64)
                 ELSE LET x == s[n - 3] IN
                      (((x % 8) * 64 + (y % 64)) * 64 + (z % 64)) * 64 + (w % 64)

\* ---- texts given to push_str / write_str ----------------------------------
RECURSIVE encode_str(_)
encode_str(cs) ==
    IF cs = <<>> THEN <<>> ELSE encode_utf8(Head(cs)) \o encode_str(Tail(cs))

\* "", "a", U+00E9, "a" U+00E9: 0 to 3 bytes
Strs == {encode_str(cs) : cs \in {<<>>, <<97>>, <<233>>, <<97, 233>>}}

\* ---- the buffers -----------------------------------------------------------
\* SliceVec { data: &mut [u8], len }: data is mem[base+1 .. base+cap]
SliceVec(base, cap, len) == [base |-> base, cap |-> cap, len |-> len]

\* SliceVec's Deref: &self.data[..self.len]; out of range when len > cap
deref_ok(b) == b.len <= b.cap

\* the bytes [0, len) of a buffer over the region m
content_of(m, b) == [k \in 1..b.len |-> m[b.base + k]]

content(b) == content_of(mem, b)

\* what a read of the buffer as a str does: the slice index panics when
\* len > data.len(); from_utf8_unchecked on ill-formed bytes is undefined
str_read(b) ==
    IF ~deref_ok(b) THEN "panic"
    ELSE IF ~from_utf8_ok(content(b)) THEN "ub"
    ELSE "ok"

\* record of the call that produced the current state
Call(op, buf, n, ch, s, res) ==
    [op |-> op, buf |-> buf, n |-> n, ch |-> ch, s |-> s, res |-> res]

\* a panic or undefined behaviour ends the run
Running == last.res \notin {"panic", "ub"} /\ ops < MaxOps

\* what has been seen of a buffer: whether a call on it ever returned Err,
\* whether the latest call on it was clear(), and whether the latest call on
\* it was a push that returned
Seen(erred, cleared, pushed) ==
    [erred |-> erred, cleared |-> cleared, pushed |-> pushed]

\* every call counts, leaves the state it started from in `pre`, and is
\* noted in `hist` for the buffer it was made on
Step ==
    /\ ops' = ops + 1
    /\ pre' = [mem |-> mem, bufs |-> bufs, hist |-> hist]
    /\ hist' = [j \in 1..Len(bufs') |->
                  IF j > Len(hist) THEN Seen(FALSE, FALSE, FALSE)
                  ELSE IF j = last'.buf
                  THEN Seen(hist[j].erred \/ last'.res = "err",
                            last'.op = "clear",
                            last'.op = "push" /\ last'.res = "ok")
                  ELSE hist[j]]

\* ---- tinyvec::SliceVec<u8>, as SliceString calls it ----------------------
\* each gives the buffer, the region and whether the call returned
Outcome(b, m, res) == [b |-> b, m |-> m, res |-> res]

\* SliceVec::from_slice_len: assert!(len <= data.len())
from_slice_len(cap, len) == SliceVec(0, cap, len)

\* a truncate that leaves the length alone
sv_truncate_keeps(b, new_len) == b

\* a truncate that sets the length whatever it was
sv_truncate_set(b, new_len) == [b EXCEPT !.len = new_len]

\* SliceVec::truncate: no effect unless new_len < len
sv_truncate(b, new_len) ==
    IF new_len >= b.len THEN b ELSE [b EXCEPT !.len = new_len]

\* a push that drops the byte when the slice is full
sv_push_dropping(b, m, val) ==
    IF b.len < b.cap
    THEN [b |-> [b EXCEPT !.len = b.len + 1],
          m |-> [m EXCEPT ![b.base + b.len + 1] = val], res |-> "ok"]
    ELSE [b |-> b, m |-> m, res |-> "ok"]

\* a push that grows into the bytes after a full slice
sv_push_growing(b, m, val) ==
    IF b.len < b.cap
    THEN [b |-> [b EXCEPT !.len = b.len + 1],
          m |-> [m EXCEPT ![b.base + b.len + 1] = val], res |-> "ok"]
    ELSE IF b.len = b.cap /\ b.base + b.cap < Len(m)
    THEN [b |-> [b EXCEPT !.len = b.len + 1, !.cap = b.cap + 1],
          m |-> [m EXCEPT ![b.base + b.len + 1] = val], res |-> "ok"]
    ELSE [b |-> b, m |-> m, res |-> "panic"]

\* SliceVec::push: panics when the slice is full
sv_push(b, m, val) ==
    IF b.len < b.cap
    THEN Outcome([b EXCEPT !.len = b.len + 1],
                 [m EXCEPT ![b.base + b.len + 1] = val], "ok")
    ELSE Outcome(b, m, "panic")

\* an append that copies the part that fits and says nothing
sv_extend_from_slice_truncating(b, m, sli) ==
    LET room == IF b.cap > b.len THEN b.cap - b.len ELSE 0
        n == IF Len(sli) < room THEN Len(sli) ELSE room
    IN IF n = 0 /\ Len(sli) > 0 THEN [b |-> b, m |-> m, res |-> "panic"]
       ELSE [b |-> [b EXCEPT !.len = b.len + n],
             m |-> [k \in DOMAIN m |->
                      IF k > b.base + b.len /\ k <= b.base + b.len + n
                      THEN sli[k - b.base - b.len] ELSE m[k]],
             res |-> "ok"]

\* SliceVec::extend_from_slice: returns at once on an empty slice; panics
\* when the total length exceeds the capacity, before anything is written
sv_extend_from_slice(b, m, sli) ==
    IF sli = <<>> THEN Outcome(b, m, "ok")
    ELSE LET sum == b.len + Len(sli)
             new_len == sum % UsizeModulus
         IN IF sum >= UsizeModulus /\ overflow_checks THEN Outcome(b, m, "panic")
            ELSE IF new_len > b.cap THEN Outcome(b, m, "panic")
            ELSE IF b.len > new_len THEN Outcome(b, m, "panic")
            ELSE Outcome([b EXCEPT !.len = new_len],
                         [k \in DOMAIN m |->
                            IF k > b.base + b.len /\ k <= b.base + new_len
                            THEN sli[k - b.base - b.len] ELSE m[k]],
                         "ok")

\* a split that forgets to take `at` off the returned length
sv_split_off_keeps_len(b, at) ==
    IF at > b.cap \/ (at > b.len /\ overflow_checks)
    THEN [self |-> [b EXCEPT !.cap = 0], new |-> b, res |-> "panic"]
    ELSE [self |-> [base |-> b.base, cap |-> at, len |-> at],
          new  |-> [base |-> b.base + at, cap |-> b.cap - at, len |-> b.len],
          res  |-> "ok"]

\* a split that leaves the retained vec its old slice
sv_split_off_keeps_cap(b, at) ==
    IF at > b.cap \/ (at > b.len /\ overflow_checks)
    THEN [self |-> [b EXCEPT !.cap = 0], new |-> b, res |-> "panic"]
    ELSE [self |-> [base |-> b.base, cap |-> b.cap, len |-> at],
          new  |-> [base |-> b.base + at, cap |-> b.cap - at,
                    len |-> (b.len + UsizeModulus - at) % UsizeModulus],
          res  |-> "ok"]

\* SliceVec::split_off: takes the slice out of self, splits it at `at`
\* (split_at_mut panics when at > data.len()), sets new.len = self.len - at
\* in usize arithmetic and self.len = at.  The subtraction underflows when
\* at > self.len: a panic with overflow checks, a wrap without.  The result
\* is <<self, new>>; at a panic self is left holding the empty slice.
sv_split_off(b, at) ==
    LET taken == [b EXCEPT !.cap = 0] IN
    IF at > b.cap THEN [self |-> taken, new |-> taken, res |-> "panic"]
    ELSE IF at > b.len /\ overflow_checks
         THEN [self |-> taken, new |-> taken, res |-> "panic"]
    ELSE [self |-> SliceVec(b.base, at, at),
          new  |-> SliceVec(b.base + at, b.cap - at,
                            (b.len + UsizeModulus - at) % UsizeModulus),
          res  |-> "ok"]

\* ---- SliceString -----------------------------------------------------------
\* a push_str that refuses to fill the buffer to the brim
do_push_str_strict(b, m, s) ==
    IF b.len + Len(s) >= b.cap THEN [b |-> b, m |-> m, res |-> "panic"]
    ELSE sv_extend_from_slice(b, m, s)

\* push_str: self.0.extend_from_slice(string.as_bytes())
do_push_str(b, m, s) == sv_extend_from_slice(b, m, s)

\* a push that stores every character as the single byte `c as u8`
do_push_as_byte(b, m, c) == sv_push(b, m, c % 256)

\* push: one byte goes through SliceVec::push, longer encodings through
\* push_str
do_push(b, m, c) ==
    IF len_utf8(c) = 1 THEN sv_push(b, m, c)
    ELSE do_push_str(b, m, encode_utf8(c))

\* ---- comparison and hashing: all go through Deref to str ------------------
\* str::eq on two byte strings: same length, same bytes
str_eq(x, y) == Len(x) = Len(y) /\ \A k \in 1..Len(x) : x[k] = y[k]

\* Ord::cmp on str: the first differing byte decides, else the lengths
str_cmp(x, y) ==
    LET l == IF Len(x) < Len(y) THEN Len(x) ELSE Len(y)
        diff == {k \in 1..l : x[k] # y[k]}
    IN IF diff # {}
       THEN LET d == CHOOSE k \in diff : \A k2 \in diff : k <= k2
            IN IF x[d] < y[d] THEN "Less" ELSE "Greater"
       ELSE IF Len(x) < Len(y) THEN "Less"
       ELSE IF Len(x) > Len(y) THEN "Greater"
       ELSE "Equal"

\* an eq that compares the whole slices, spare bytes included
eq_whole_slice(a, b) ==
    /\ a.cap = b.cap /\ a.len = b.len
    /\ \A k \in 1..a.cap : mem[a.base + k] = mem[b.base + k]

\* PartialEq for SliceString: str::eq(&**self, &**rhs)
eq(a, b) == str_eq(content(a), content(b))

\* PartialEq<str> / PartialEq<&str>, in both directions: str::eq(&self[..], other)
eq_str(a, s) == str_eq(content(a), s)

\* Ord / PartialOrd for SliceString: Ord::cmp(&**self, &**other)
cmp(a, b) == str_cmp(content(a), content(b))

\* Hash for SliceString: <str as Hash>::hash, which feeds the hasher the
\* bytes and then 0xff
hash(a) == content(a) \o <<255>>

\* From<SliceString> for (&mut [u8], usize): as_mut_ptr() and len() go through
\* the deref to str, capacity() is the length of the slice; the pair is the
\* slice of `capacity` bytes from the pointer, and the len
into_parts(b) ==
    IF str_read(b) # "ok"
    THEN [res |-> str_read(b), base |-> b.base, cap |-> 0, len |-> 0]
    ELSE [res |-> "ok", base |-> b.base, cap |-> b.cap, len |-> b.len]

\* SliceString::from_utf8(buf, len) on the slice of `cap` bytes at `base`:
\* &buf[..len] panics when len > buf.len(), str::from_utf8 decides the rest
from_utf8_parts(m, base, cap, n) ==
    IF n > cap THEN [res |-> "panic", b |-> SliceVec(base, 0, 0)]
    ELSE IF ~from_utf8_ok(SubSeq(m, base + 1, base + n))
    THEN [res |-> "err", b |-> SliceVec(base, 0, 0)]
    ELSE [res |-> "ok", b |-> SliceVec(base, cap, n)]

Init ==
    /\ mem \in [1..MaxCap -> InitBytes]
    /\ bufs = <<>>
    /\ last = Call("init", 0, 0, 0, <<>>, "ok")
    /\ overflow_checks \in BOOLEAN
    /\ ops = 0
    /\ hist = <<>>
    /\ pre = [mem |-> mem, bufs |-> bufs, hist |-> hist]

\* SliceString::new(buf)
new ==
    /\ Running /\ bufs = <<>>
    /\ bufs' = <<from_slice_len(Len(mem), 0)>>
    /\ last' = Call("new", 1, 0, 0, <<>>, "ok")
    /\ Step /\ UNCHANGED <<mem, overflow_checks>>

\* the body of from_utf8(buf, len): &buf[..len] panics when len > buf.len(),
\* str::from_utf8 decides between Err and the buffer
do_from_utf8(op, n) ==
    /\ Running /\ bufs = <<>>
    /\ IF n > Len(mem)
       THEN /\ last' = Call(op, 0, n, 0, <<>>, "panic")
            /\ UNCHANGED bufs
       ELSE IF ~from_utf8_ok(SubSeq(mem, 1, n))
       THEN /\ last' = Call(op, 0, n, 0, <<>>, "err")
            /\ UNCHANGED bufs
       ELSE /\ bufs' = <<from_slice_len(Len(mem), n)>>
            /\ last' = Call(op, 1, n, 0, <<>>, "ok")
    /\ Step /\ UNCHANGED <<mem, overflow_checks>>

\* SliceString::from_utf8(buf, len)
from_utf8 == \E n \in 0..(MaxCap + 1) : do_from_utf8("from_utf8", n)

\* TryFrom<&mut [u8]>: from_utf8(value, value.len())
try_from == do_from_utf8("try_from", Len(mem))

\* TryFrom<SliceVec<u8>>: validates the vec's [0, len) and wraps it
try_from_slicevec ==
    \E n \in 0..Len(mem) : do_from_utf8("try_from_slicevec", n)

\* SliceString::clear
clear ==
    \E i \in 1..Len(bufs) :
        /\ Running
        /\ bufs' = [bufs EXCEPT ![i] = sv_truncate(@, 0)]
        /\ last' = Call("clear", i, 0, 0, <<>>, "ok")
        /\ Step /\ UNCHANGED <<mem, overflow_checks>>

\* SliceString::truncate(new_len)
truncate ==
    \E i \in 1..Len(bufs), new_len \in 0..(MaxCap + 1) :
        LET b == bufs[i] IN
        /\ Running
        /\ IF str_read(b) # "ok"
           THEN /\ last' = Call("truncate", i, new_len, 0, <<>>, str_read(b))
                /\ UNCHANGED bufs
           ELSE IF new_len <= b.len /\ ~is_char_boundary(content(b), new_len)
           THEN /\ last' = Call("truncate", i, new_len, 0, <<>>, "panic")
                /\ UNCHANGED bufs
           ELSE /\ bufs' = [bufs EXCEPT ![i] = sv_truncate(b, new_len)]
                /\ last' = Call("truncate", i, new_len, 0, <<>>, "ok")
        /\ Step /\ UNCHANGED <<mem, overflow_checks>>

\* SliceString::pop
pop ==
    \E i \in 1..Len(bufs) :
        LET b == bufs[i] IN
        /\ Running
        /\ IF str_read(b) # "ok"
           THEN /\ last' = Call("pop", i, 0, 0, <<>>, str_read(b))
                /\ UNCHANGED bufs
           ELSE IF b.len = 0
           THEN /\ last' = Call("pop", i, 0, 0, <<>>, "none")
                /\ UNCHANGED bufs
           ELSE LET ch == last_char(content(b)) IN
                /\ bufs' = [bufs EXCEPT ![i] = sv_truncate(b, b.len - len_utf8(ch))]
                /\ last' = Call("pop", i, 0, ch, <<>>, "some")
        /\ Step /\ UNCHANGED <<mem, overflow_checks>>

\* SliceString::push(c)
push ==
    \E i \in 1..Len(bufs), c \in Chars :
        LET r == do_push(bufs[i], mem, c) IN
        /\ Running
        /\ bufs' = [bufs EXCEPT ![i] = r.b]
        /\ mem' = r.m
        /\ last' = Call("push", i, 0, c, <<>>, r.res)
        /\ Step /\ UNCHANGED overflow_checks

\* SliceString::push_str(string)
push_str ==
    \E i \in 1..Len(bufs), s \in Strs :
        LET r == do_push_str(bufs[i], mem, s) IN
        /\ Running
        /\ bufs' = [bufs EXCEPT ![i] = r.b]
        /\ mem' = r.m
        /\ last' = Call("push_str", i, 0, 0, s, r.res)
        /\ Step /\ UNCHANGED overflow_checks

\* SliceString::split_off(at)
split_off ==
    \E i \in 1..Len(bufs), at \in 0..(MaxCap + 1) :
        LET b == bufs[i]
            r == sv_split_off(b, at)
        IN
        /\ Running /\ Len(bufs) < MaxBufs
        /\ IF str_read(b) # "ok"
           THEN /\ last' = Call("split_off", i, at, 0, <<>>, str_read(b))
                /\ UNCHANGED bufs
           ELSE IF at <= b.len /\ ~is_char_boundary(content(b), at)
           THEN /\ last' = Call("split_off", i, at, 0, <<>>, "panic")
                /\ UNCHANGED bufs
           ELSE IF r.res = "panic"
           THEN /\ bufs' = [bufs EXCEPT ![i] = r.self]
                /\ last' = Call("split_off", i, at, 0, <<>>, "panic")
           ELSE /\ bufs' = Append([bufs EXCEPT ![i] = r.self], r.new)
                /\ last' = Call("split_off", i, at, 0, <<>>, "ok")
        /\ Step /\ UNCHANGED <<mem, overflow_checks>>

\* an adapter that keeps failing once it has failed
exceeds_latched(b, n) ==
    \/ b.cap < b.len + n
    \/ \E j \in 1..Len(hist) : hist[j].erred /\ bufs[j] = b

\* the adapters' test off by one
exceeds_off_by_one(b, n) == b.cap <= b.len + n

\* the adapters' test: self.capacity() < self.len() + n
exceeds(b, n) == b.cap < b.len + n

\* the body shared by fmt::Write::write_str and uWrite::write_str:
\* Err when capacity() < len() + s.len(), else push_str(s)
do_write_str(op, i, s) ==
    LET b == bufs[i]
        r == do_push_str(b, mem, s)
    IN
    /\ Running
    /\ IF str_read(b) # "ok"
       THEN /\ last' = Call(op, i, 0, 0, s, str_read(b))
            /\ UNCHANGED <<bufs, mem>>
       ELSE IF exceeds(b, Len(s))
       THEN /\ last' = Call(op, i, 0, 0, s, "err")
            /\ UNCHANGED <<bufs, mem>>
       ELSE /\ bufs' = [bufs EXCEPT ![i] = r.b]
            /\ mem' = r.m
            /\ last' = Call(op, i, 0, 0, s, r.res)
    /\ Step /\ UNCHANGED overflow_checks

\* fmt::Write::write_str
write_str == \E i \in 1..Len(bufs), s \in Strs : do_write_str("write_str", i, s)

\* ufmt uWrite::write_str
uwrite_str == \E i \in 1..Len(bufs), s \in Strs : do_write_str("uwrite_str", i, s)

\* fmt::Write::write_char
write_char ==
    \E i \in 1..Len(bufs), c \in Chars :
        LET b == bufs[i]
            r == do_push(b, mem, c)
        IN
        /\ Running
        /\ IF str_read(b) # "ok"
           THEN /\ last' = Call("write_char", i, 0, c, <<>>, str_read(b))
                /\ UNCHANGED <<bufs, mem>>
           ELSE IF exceeds(b, len_utf8(c))
           THEN /\ last' = Call("write_char", i, 0, c, <<>>, "err")
                /\ UNCHANGED <<bufs, mem>>
           ELSE /\ bufs' = [bufs EXCEPT ![i] = r.b]
                /\ mem' = r.m
                /\ last' = Call("write_char", i, 0, c, <<>>, r.res)
        /\ Step /\ UNCHANGED overflow_checks

Next ==
    \/ new
    \/ from_utf8
    \/ try_from
    \/ try_from_slicevec
    \/ clear
    \/ truncate
    \/ pop
    \/ push
    \/ push_str
    \/ split_off
    \/ write_str
    \/ uwrite_str
    \/ write_char

Spec == Init /\ [][Next]_vars

\* ---- the vocabulary of the properties --------------------------------------
\* A Unicode scalar value: a code point outside the surrogate range
IsScalar(c) == c >= 0 /\ c <= 1114111 /\ ~(c >= 55296 /\ c <= 57343)

\* the code point a window of 1..4 bytes would carry, by the bit layout
WindowValue(p) ==
    CASE Len(p) = 1 -> p[1]
      [] Len(p) = 2 -> (p[1] % 32) * 64 + (p[2] % 64)
      [] Len(p) = 3 -> ((p[1] % 16) * 64 + (p[2] % 64)) * 64 + (p[3] % 64)
      [] OTHER      -> (((p[1] % 8) * 64 + (p[2] % 64)) * 64 + (p[3] % 64)) * 64
                       + (p[4] % 64)

\* well-formed UTF-8 by definition: a concatenation of the encodings of
\* scalar values
RECURSIVE IsUtf8(_)
IsUtf8(s) ==
    \/ s = <<>>
    \/ \E w \in 1..4 :
          /\ w <= Len(s)
          /\ IsScalar(WindowValue(SubSeq(s, 1, w)))
          /\ encode_utf8(WindowValue(SubSeq(s, 1, w))) = SubSeq(s, 1, w)
          /\ IsUtf8(SubSeq(s, w + 1, Len(s)))

\* the type's invariants I1 and I2 for buffer b over region m
Sound(m, b) == b.len <= b.cap /\ IsUtf8(content_of(m, b))

\* the call that led here returned (neither panicked nor was undefined)
Returned == last.res \notin {"panic", "ub"}

\* the buffer the last call was made on, before and after it
PreB == pre.bufs[last.buf]
PostB == bufs[last.buf]
PreContent == content_of(pre.mem, PreB)
Prefix(k) == SubSeq(PreContent, 1, k)

\* the last call was op, on a buffer that satisfied I1 and I2
On(op) == last.op = op /\ Sound(pre.mem, PreB)

\* nothing at all changed
Unchanged == bufs = pre.bufs /\ mem = pre.mem

\* every buffer but the one called on is as it was
OthersSame ==
    \A j \in 1..Len(pre.bufs) : j # last.buf => bufs[j] = pre.bufs[j]

\* the bytes an append call was asked to add
Arg == IF last.op \in {"push", "write_char"} THEN encode_utf8(last.ch) ELSE last.s

\* ---- C1 --------------------------------------------------------------------
\* C1: after any sequence of safe calls that returned, the bytes [0, len) of
\* every live buffer are well-formed UTF-8.
C1_ContentIsUtf8 ==
    Returned =>
        \A i \in 1..Len(bufs) :
            bufs[i].len <= bufs[i].cap => IsUtf8(content(bufs[i]))

\* ---- C2 --------------------------------------------------------------------
\* C2: len <= capacity for every buffer, after every call that returned.
C2_LenWithinCapacity ==
    Returned => \A i \in 1..Len(bufs) : bufs[i].len <= bufs[i].cap

\* ---- C3 --------------------------------------------------------------------
AppendTooLong ==
    /\ (On("push") \/ On("push_str"))
    /\ PreB.len + Len(Arg) > PreB.cap

\* C3 as stated: push / push_str of more than fits reports an error value
\* and leaves len, capacity and the bytes as they were.
C3_ReportsCapacityExceeded ==
    AppendTooLong => last.res = "err" /\ Unchanged

\* C3 amended: push / push_str of more than fits panics, and at the panic
\* len, capacity and the bytes are what they were before the call.
C3_PanicsUnchanged ==
    AppendTooLong => last.res = "panic" /\ Unchanged

C3_Witness ==
    /\ AppendTooLong
    /\ last.op = "push" /\ len_utf8(last.ch) = 3
    /\ PreB.len > 0 /\ PreB.cap - PreB.len = 2
    /\ last.res = "panic"

\* ---- C4 --------------------------------------------------------------------
SplitInContent ==
    /\ On("split_off")
    /\ last.n <= PreB.len
    /\ IsUtf8(Prefix(last.n))

\* C4: split_off(at) with at <= len on a boundary leaves the original with
\* len = capacity = at and the old content[0..at), and returns a buffer with
\* len = old len - at, capacity = old capacity - at and the old
\* content[at..len); no byte moves.
C4_SplitPartitions ==
    SplitInContent =>
        LET ret == bufs[Len(bufs)] IN
        /\ last.res = "ok"
        /\ Len(bufs) = Len(pre.bufs) + 1
        /\ PostB = SliceVec(PreB.base, last.n, last.n)
        /\ ret = SliceVec(PreB.base + last.n, PreB.cap - last.n, PreB.len - last.n)
        /\ PostB.cap + ret.cap = PreB.cap
        /\ content(PostB) = Prefix(last.n)
        /\ content(ret) = SubSeq(PreContent, last.n + 1, PreB.len)
        /\ content(PostB) \o content(ret) = PreContent
        /\ mem = pre.mem
        /\ OthersSame

C4_Witness ==
    /\ SplitInContent
    /\ last.res = "ok"
    /\ last.n = 2 /\ PreB.len = 3 /\ PreB.cap = 4
    /\ content(bufs[Len(bufs)]) = <<97>>

\* ---- C5 --------------------------------------------------------------------
\* C5: split_off(at) with len < at <= capacity returns a buffer of length 0
\* and capacity old capacity - at, shrinks the original's capacity to at and
\* leaves the original's len and content as they were.
C5_SplitInSpareCapacity ==
    (/\ On("split_off")
     /\ PreB.len < last.n
     /\ last.n <= PreB.cap) =>
        LET ret == bufs[Len(bufs)] IN
        /\ last.res = "ok"
        /\ Len(bufs) = Len(pre.bufs) + 1
        /\ ret.len = 0
        /\ ret.cap = PreB.cap - last.n
        /\ PostB.cap = last.n
        /\ PostB.len = PreB.len
        /\ content(PostB) = PreContent

\* ---- C6 --------------------------------------------------------------------
\* C6: pop() on non-empty content returns its last scalar value and shortens
\* len by that scalar's encoded width, capacity and the remaining bytes
\* untouched; on empty content it returns None and changes nothing.
C6_PopLastScalar ==
    On("pop") =>
        IF PreB.len = 0
        THEN last.res = "none" /\ Unchanged
        ELSE /\ last.res = "some"
             /\ IsScalar(last.ch)
             /\ len_utf8(last.ch) \in 1..4
             /\ PostB.len = PreB.len - len_utf8(last.ch)
             /\ IsUtf8(content(PostB))
             /\ PreContent = content(PostB) \o encode_utf8(last.ch)
             /\ PostB.cap = PreB.cap /\ PostB.base = PreB.base
             /\ mem = pre.mem
             /\ OthersSame

C6_Witness ==
    /\ On("pop")
    /\ last.res = "some"
    /\ last.ch = 128512
    /\ PreB.len = 4 /\ PostB.len = 0

\* ---- C7 --------------------------------------------------------------------
\* C7: truncate(new_len) with new_len >= len changes nothing and does not
\* panic, also when new_len > capacity; with new_len < len on a boundary it
\* sets len = new_len and keeps content[0..new_len) and the capacity.
C7_Truncate ==
    On("truncate") =>
        /\ last.n >= PreB.len => last.res = "ok" /\ Unchanged
        /\ (last.n < PreB.len /\ IsUtf8(Prefix(last.n))) =>
              /\ last.res = "ok"
              /\ PostB = [PreB EXCEPT !.len = last.n]
              /\ content(PostB) = Prefix(last.n)
              /\ mem = pre.mem
              /\ OthersSame

C7_Witness ==
    /\ On("truncate")
    /\ last.res = "ok"
    /\ last.n = 2 /\ PreB.len = 4 /\ PostB.len = 2
    /\ PreContent[1] = 195

C7_WitnessNoOp ==
    /\ On("truncate")
    /\ last.res = "ok"
    /\ last.n > PreB.cap /\ PreB.len > 0

\* ---- C8 --------------------------------------------------------------------
InsideEncoding ==
    /\ \/ On("truncate") /\ last.n < PreB.len
       \/ On("split_off") /\ last.n <= PreB.len
    /\ ~IsUtf8(Prefix(last.n))

\* C8: truncate(new_len < len) and split_off(at <= len) with an index inside
\* a multi-byte encoding panic with len, capacity and content unaltered.
C8_BoundaryPanics ==
    InsideEncoding => last.res = "panic" /\ Unchanged

C8_Witness ==
    /\ InsideEncoding
    /\ last.op = "split_off"
    /\ last.res = "panic"
    /\ last.n = 3 /\ PreB.len = 4

C8_WitnessTruncate ==
    /\ InsideEncoding
    /\ last.op = "truncate"
    /\ last.res = "panic"

\* ---- C9 --------------------------------------------------------------------
\* C9: from_utf8(region, n) with n <= region length succeeds exactly when
\* region[0..n] is well-formed; the buffer then has len = n, capacity = the
\* region's length and content = region[0..n]; otherwise it returns the
\* error, makes no buffer, and either way no byte of the region changes.
C9_FromUtf8 ==
    (last.op = "from_utf8" /\ last.n <= Len(pre.mem)) =>
        /\ last.res \in {"ok", "err"}
        /\ last.res = "ok" <=> IsUtf8(SubSeq(pre.mem, 1, last.n))
        /\ last.res = "ok" =>
              /\ bufs = <<SliceVec(0, Len(pre.mem), last.n)>>
              /\ content(bufs[1]) = SubSeq(pre.mem, 1, last.n)
        /\ last.res = "err" => bufs = <<>>
        /\ mem = pre.mem

C9_Witness ==
    /\ last.op = "from_utf8"
    /\ last.res = "ok"
    /\ last.n = 2
    /\ ~IsUtf8(SubSeq(mem, 1, 3))
    /\ bufs[1].len = 2 /\ bufs[1].cap = MaxCap

C9_WitnessErr ==
    /\ last.op = "from_utf8"
    /\ last.res = "err"
    /\ last.n = 3
    /\ IsUtf8(SubSeq(mem, 1, 2))

\* ---- C10 -------------------------------------------------------------------
OnWrite == On("write_str") \/ On("write_char") \/ On("uwrite_str")

\* C10: the write adapters return an error exactly when capacity < len +
\* the argument's byte length, then change nothing; otherwise they return Ok
\* with the argument's bytes appended; they never panic.
C10_WriteAdapters ==
    OnWrite =>
        /\ last.res \in {"ok", "err"}
        /\ last.res = "err" <=> PreB.cap < PreB.len + Len(Arg)
        /\ last.res = "err" => Unchanged
        /\ last.res = "ok" =>
              /\ content(PostB) = PreContent \o Arg
              /\ PostB = [PreB EXCEPT !.len = PreB.len + Len(Arg)]
              /\ OthersSame

C10_Witness ==
    /\ OnWrite
    /\ last.op = "uwrite_str"
    /\ last.res = "err"
    /\ Len(Arg) = 3 /\ PreB.cap - PreB.len = 2

C10_WitnessOk ==
    /\ OnWrite
    /\ last.op = "write_char"
    /\ last.res = "ok"
    /\ Len(Arg) = 4 /\ PostB.len = PostB.cap

\* ---- C11 -------------------------------------------------------------------
OnAppendPanicking == On("push") \/ On("push_str")

\* C11: push / push_str panic when the remaining space capacity - len is
\* smaller than the argument's encoded length, for one-byte and longer
\* characters alike, and when they return the whole argument was appended.
C11_PanicOrWhole ==
    OnAppendPanicking =>
        /\ PreB.cap - PreB.len < Len(Arg) => last.res = "panic"
        /\ last.res \in {"ok", "panic"}
        /\ last.res = "ok" =>
              /\ PostB.len = PreB.len + Len(Arg)
              /\ content(PostB) = PreContent \o Arg

C11_Witness ==
    /\ On("push")
    /\ last.ch = 97
    /\ PreB.len = PreB.cap /\ PreB.cap = 1
    /\ last.res = "panic"

C11_WitnessMultiByte ==
    /\ On("push_str")
    /\ Len(last.s) = 3 /\ PreB.cap - PreB.len = 1
    /\ last.res = "panic"

\* ---- C12 -------------------------------------------------------------------
AppendFits ==
    /\ last.op \in {"push", "push_str"}
    /\ PreB.len + Len(Arg) <= PreB.cap

\* C12: when len + encoded width <= capacity, push / push_str succeed, the
\* content becomes the old content followed by the argument's encoding, len
\* grows by exactly that width and the capacity stays; so push_str("") on a
\* full buffer and an append that fills the buffer exactly both succeed.
C12_AppendSucceeds ==
    AppendFits =>
        /\ last.res = "ok"
        /\ PostB = [PreB EXCEPT !.len = PreB.len + Len(Arg)]
        /\ content(PostB) = PreContent \o Arg
        /\ last.op = "push" => Len(Arg) \in 1..4
        /\ OthersSame

C12_Witness ==
    /\ AppendFits
    /\ last.op = "push" /\ last.ch = 8364
    /\ PreB.len = 1 /\ PostB.len = PostB.cap
    /\ last.res = "ok"

C12_WitnessEmptyOnFull ==
    /\ AppendFits
    /\ last.op = "push_str" /\ last.s = <<>>
    /\ PreB.len = PreB.cap /\ PreB.cap > 0
    /\ last.res = "ok"

\* ---- C13 -------------------------------------------------------------------
\* the positions of the region a buffer's slice covers
Range(b) == (b.base + 1)..(b.base + b.cap)

Mutators ==
    {"clear", "truncate", "pop", "push", "push_str",
     "write_str", "write_char", "uwrite_str"}

OnAppend ==
    On("push") \/ On("push_str") \/ On("write_str") \/ On("write_char")
      \/ On("uwrite_str")

\* C13: the buffers split_off leaves cover disjoint ranges of the region; a
\* call on one of them changes neither the other's len and capacity nor any
\* byte of the other's range; and an append of one or more bytes to a buffer
\* that is full (as the retained one is after a split inside its content)
\* fails with nothing written.
C13_SplitFrame ==
    /\ \A i, j \in 1..Len(bufs) :
          i # j => Range(bufs[i]) \cap Range(bufs[j]) = {}
    /\ (last.op \in Mutators /\ last.res # "ub") =>
          \A j \in 1..Len(pre.bufs) :
              j # last.buf =>
                 /\ bufs[j] = pre.bufs[j]
                 /\ \A k \in Range(pre.bufs[j]) : mem[k] = pre.mem[k]
    /\ (OnAppend /\ PreB.len = PreB.cap /\ Len(Arg) > 0) =>
          last.res \in {"panic", "err"} /\ Unchanged

C13_Witness ==
    /\ Len(bufs) = 2
    /\ last.op = "push" /\ last.buf = 2 /\ last.res = "ok"
    /\ bufs[1].len = 2 /\ bufs[1].cap = 2
    /\ bufs[2].len = 2
    /\ content(bufs[1]) = <<195, 169>>
    /\ mem # pre.mem

C13_WitnessRetainedFull ==
    /\ Len(bufs) = 2
    /\ OnAppend /\ last.buf = 1 /\ last.res = "err"
    /\ PreB.len = PreB.cap /\ PreB.cap = 2
    /\ bufs[2].cap = 2 /\ Len(Arg) = 1

\* ---- C14 -------------------------------------------------------------------
\* C14: clear, truncate, pop, push, push_str, write_str and write_char leave
\* every buffer's capacity as it was, whether they succeed or fail; only
\* split_off changes a capacity, and only downwards.
C14_CapacityNeverGrows ==
    /\ last.op \in Mutators =>
          /\ Len(bufs) = Len(pre.bufs)
          /\ \A j \in 1..Len(bufs) :
                /\ bufs[j].cap = pre.bufs[j].cap
                /\ bufs[j].base = pre.bufs[j].base
    /\ last.op = "split_off" =>
          /\ \A j \in 1..Len(pre.bufs) :
                /\ bufs[j].cap <= pre.bufs[j].cap
                /\ j # last.buf => bufs[j].cap = pre.bufs[j].cap
          /\ \A j \in (Len(pre.bufs) + 1)..Len(bufs) :
                bufs[j].cap <= PreB.cap

C14_Witness ==
    /\ last.op = "write_char" /\ last.res = "ok"
    /\ PreB.len = 0 /\ PostB.len = 4
    /\ PostB.cap = 4

C14_WitnessSplit ==
    /\ last.op = "split_off" /\ last.res = "ok"
    /\ PreB.cap = 4 /\ PostB.cap = 1 /\ bufs[2].cap = 3

\* ---- C15 -------------------------------------------------------------------
\* C15: a capacity failure is not latched.  On a buffer that has reported
\* Err, every later append of at most capacity - len bytes succeeds; and
\* right after clear() every text of at most capacity bytes is appended.
C15_FailureNotLatched ==
    OnAppend =>
        /\ (pre.hist[last.buf].erred /\ Len(Arg) <= PreB.cap - PreB.len) =>
              /\ last.res = "ok"
              /\ content(PostB) = PreContent \o Arg
        /\ (pre.hist[last.buf].cleared /\ Len(Arg) <= PreB.cap) =>
              /\ PreB.len = 0
              /\ last.res = "ok"
              /\ content(PostB) = Arg

C15_Witness ==
    /\ OnAppend
    /\ pre.hist[last.buf].erred
    /\ last.op = "write_str" /\ Len(Arg) = 2
    /\ PreB.cap - PreB.len = 2 /\ PreB.len > 0
    /\ last.res = "ok"

C15_WitnessAfterClear ==
    /\ OnAppend
    /\ pre.hist[last.buf].cleared /\ pre.hist[last.buf].erred
    /\ Len(Arg) = PreB.cap /\ PreB.cap = 4
    /\ last.res = "ok"

\* ---- C16 -------------------------------------------------------------------
\* x comes before y in the lexicographic order of byte strings
LexLess(x, y) ==
    \E k \in 1..(Len(y)) :
        /\ \A k2 \in 1..(k - 1) : k2 <= Len(x) /\ x[k2] = y[k2]
        /\ k - 1 <= Len(x)
        /\ (k > Len(x) \/ x[k] < y[k])

SoundNow(b) == Sound(mem, b)

\* C16: equality, ordering and hashing see only the content bytes: buffers
\* with the same content compare equal, order as equal and hash alike
\* whatever their capacities and spare bytes; a buffer equals a native
\* string exactly when the bytes are equal; the order is lexicographic.
C16_ComparisonsByContent ==
    \A i, j \in 1..Len(bufs) :
        (SoundNow(bufs[i]) /\ SoundNow(bufs[j])) =>
            LET x == content(bufs[i])
                y == content(bufs[j])
            IN /\ eq(bufs[i], bufs[j]) <=> x = y
               /\ x = y => /\ cmp(bufs[i], bufs[j]) = "Equal"
                           /\ hash(bufs[i]) = hash(bufs[j])
               /\ hash(bufs[i]) = hash(bufs[j]) => x = y
               /\ cmp(bufs[i], bufs[j]) = "Less" <=> LexLess(x, y)
               /\ cmp(bufs[i], bufs[j]) = "Greater" <=> LexLess(y, x)
               /\ \A s \in Strs : eq_str(bufs[i], s) <=> x = s

C16_Witness ==
    /\ Len(bufs) = 2
    /\ SoundNow(bufs[1]) /\ SoundNow(bufs[2])
    /\ content(bufs[1]) = <<97>> /\ content(bufs[2]) = <<97>>
    /\ bufs[1].cap = 1 /\ bufs[2].cap = 3
    /\ mem[3] # 97
    /\ eq(bufs[1], bufs[2])

C16_WitnessOrder ==
    /\ Len(bufs) = 2
    /\ SoundNow(bufs[1]) /\ SoundNow(bufs[2])
    /\ content(bufs[1]) = <<195, 169>> /\ content(bufs[2]) = <<97>>
    /\ cmp(bufs[2], bufs[1]) = "Less"

\* ---- C17 ----------------------------------------------------------------
\* C17: clear() always succeeds, from any state: every call of it returns,
\* whatever len and content the buffer had (well-formed or not, len within
\* the capacity or not); afterwards len = 0 and the content is the empty
\* string, the capacity and the region are the same, no byte of the region
\* has changed and no other buffer has changed.
C17_ClearSucceeds ==
    last.op = "clear" =>
        /\ last.res = "ok"
        /\ PostB.len = 0 /\ content(PostB) = <<>>
        /\ PostB.cap = PreB.cap /\ PostB.base = PreB.base
        /\ mem = pre.mem
        /\ OthersSame

\* clear() has emptied a buffer that held text
C17_Witness ==
    /\ last.op = "clear" /\ last.res = "ok"
    /\ PreB.len > 0 /\ Sound(pre.mem, PreB)
    /\ PostB.len = 0

\* clear() has emptied a buffer whose len was beyond its capacity
C17_WitnessBeyondCapacity ==
    /\ last.op = "clear" /\ last.res = "ok"
    /\ PreB.len > PreB.cap
    /\ PostB.len = 0

\* ---- C18 ----------------------------------------------------------------
\* the buffer b converts into the pair (region of b's capacity, b's len), and
\* from_utf8 on that pair gives a buffer with b's len, capacity and content
RoundTrips(b) ==
    LET p == into_parts(b)
        r == from_utf8_parts(mem, p.base, p.cap, p.len)
    IN /\ p.res = "ok"
       /\ p.cap = b.cap /\ p.len = b.len
       /\ r.res = "ok"
       /\ r.b.len = b.len /\ r.b.cap = b.cap
       /\ content_of(mem, r.b) = content(b)

\* C18: in every reachable state, every buffer converts into the pair
\* (byte region, length) whose region has the buffer's capacity and whose
\* length is the buffer's len, and from_utf8 on that pair succeeds and gives
\* a buffer with the same len, capacity and content.
C18_RoundTrip ==
    Returned => \A i \in 1..Len(bufs) : RoundTrips(bufs[i])

\* the same for the buffers whose len is within the capacity and whose
\* content is well-formed
C18_RoundTripSound ==
    Returned => \A i \in 1..Len(bufs) : SoundNow(bufs[i]) => RoundTrips(bufs[i])

\* a buffer with text and spare capacity that makes the round trip
C18_WitnessSound ==
    /\ Returned /\ Len(bufs) = 1
    /\ bufs[1].len = 2 /\ bufs[1].cap = 4 /\ content(bufs[1]) = <<195, 169>>
    /\ RoundTrips(bufs[1])

\* ---- C19 ----------------------------------------------------------------
\* C19: push and pop are inverse.  Whenever push(c) has returned on a buffer
\* and the next call is pop() on that buffer, the pop returns Some(c) and the
\* buffer's len, capacity and content are what they were before the push;
\* no precondition on the buffer, and c of any encoded width from 1 to 4.
C19_PushPopInverse ==
    [][(/\ last.op = "push" /\ last.res = "ok"
        /\ last'.op = "pop" /\ last'.buf = last.buf) =>
           LET before == pre.bufs[last.buf]
               after  == bufs'[last.buf]
           IN /\ last'.res = "some"
              /\ last'.ch = last.ch
              /\ after.len = before.len
              /\ after.cap = before.cap /\ after.base = before.base
              /\ content_of(mem', after) = content_of(pre.mem, before)
              /\ Len(bufs') = Len(pre.bufs)
              /\ \A j \in 1..Len(bufs') : j # last.buf => bufs'[j] = pre.bufs[j]
      ]_vars

\* pop() straight after push(c) on the same buffer has returned c, for c of
\* encoded width w
PoppedAfterPush(c) ==
    /\ last.op = "pop" /\ last.res = "some" /\ last.ch = c
    /\ pre.hist[last.buf].pushed
    /\ PreB.len = PostB.len + len_utf8(c)

\* a 4-byte character pushed onto text and popped again
C19_Witness ==
    /\ PoppedAfterPush(128512)
    /\ PostB.len = 0 /\ PostB.cap = 4

\* a 1-byte character pushed after a 2-byte one and popped again
C19_WitnessWidth1 == PoppedAfterPush(97) /\ content(PostB) = <<195, 169>>

\* a 2-byte character pushed after a 2-byte one and popped again
C19_WitnessWidth2 == PoppedAfterPush(233) /\ content(PostB) = <<195, 169>>

\* a 3-byte character pushed after a 1-byte one and popped again
C19_WitnessWidth3 == PoppedAfterPush(8364) /\ content(PostB) = <<97>>

====
